---- MODULE Spec2Model ----
(***************************************************************************)
(* Model of pybiopax/biopax/base.py: the classes BioPaxObject, Entity,    *)
(* Gene and Pathway, the class method from_xml that materializes one XML  *)
(* element into an object, and to_xml that serializes the envelope.       *)
(***************************************************************************)
EXTENDS Naturals, Sequences, FiniteSets

VARIABLES cls, element, kwargs, pc, result, xml

vars == <<cls, element, kwargs, pc, result, xml>>

(* Largest number of children of one element.                              *)
MaxChildren == 3

----------------------------------------------------------------------------
(* Python values.                                                          *)

NoAttr == "NoAttr"                       \* an attribute the element lacks
Missing == [kind |-> "missing"]          \* key not in a dict / attribute not set
None == [kind |-> "None"]
Str(s) == [kind |-> "str", s |-> s]
Unresolved(obj_id) == [kind |-> "Unresolved", obj_id |-> obj_id]
PyList(items) == [kind |-> "list", items |-> items]

----------------------------------------------------------------------------
(* The class hierarchy.                                                    *)

Classes == {"BioPaxObject", "Entity", "Gene", "Pathway"}

Parent(c) == IF c \in {"Gene", "Pathway"} THEN "Entity" ELSE "BioPaxObject"

(* Classes whose body assigns list_types, and what they assign.            *)
DeclaresListTypes == {"BioPaxObject", "Entity"}

(* Faulty variant: Entity repeats the root's xref in its own list.         *)
DeclaredListTypesWithXref(c) ==
    IF c = "BioPaxObject" THEN <<"xref">> ELSE <<"xref", "evidence">>

DeclaredListTypes(c) == IF c = "BioPaxObject" THEN <<"xref">> ELSE <<"evidence">>

(* Faulty variant: the subclass's list extends its ancestors' lists.       *)
RECURSIVE ListTypesMerged(_)
ListTypesMerged(c) ==
    IF c = "BioPaxObject" THEN <<"xref">>
    ELSE ListTypesMerged(Parent(c)) \o (IF c = "Entity" THEN <<"evidence">> ELSE <<>>)

(* cls.list_types: attribute lookup along the ancestor chain.              *)
RECURSIVE ListTypes(_)
ListTypes(c) ==
    IF c \in DeclaresListTypes THEN DeclaredListTypes(c) ELSE ListTypes(Parent(c))

InListTypes(key, c) == \E i \in 1..Len(ListTypes(c)) : ListTypes(c)[i] = key

BioPaxObjectParams == {"uid", "name", "comment", "xref"}

EntityParams ==
    {"standard_name", "display_name", "all_names", "participant_of",
     "availability", "data_source", "evidence"}

GeneParams == {"organism"}

(* A tag no constructor of the hierarchy accepts.                          *)
OtherTags == {"left"}

Keys == BioPaxObjectParams \cup EntityParams \cup GeneParams \cup OtherTags

----------------------------------------------------------------------------
(* The XML input.                                                          *)

Tags == {"uid", "name", "xref", "evidence", "organism", "left"}

ChildShapes ==
    { [datatype |-> "xsd:string", text |-> "t1", resource |-> NoAttr],
      [datatype |-> NoAttr,       text |-> "",   resource |-> "r1"],
      [datatype |-> NoAttr,       text |-> "t1", resource |-> "r2"] }

Child ==
    { [tag |-> t, datatype |-> s.datatype, text |-> s.text, resource |-> s.resource] :
        t \in Tags, s \in ChildShapes }

ElementIds == {NoAttr, "g1"}

(* xml_util accessors.                                                     *)
HasId(e) == e.id # NoAttr

get_id_or_about(e) == Str(e.id)

get_attr_tag(child) == child.tag

is_datatype(child, datatype) == child.datatype = datatype

get_resource(child) == child.resource

----------------------------------------------------------------------------
(* Constructors.  Each yields [ok, self]; ok = FALSE is a TypeError.       *)

NoKwargs == [k \in Keys |-> Missing]

NoAttrs == [k \in Keys |-> Missing]

Given(kw) == {k \in Keys : kw[k] # Missing}

Arg(kw, k) == IF kw[k] = Missing THEN None ELSE kw[k]

Without(kw, names) == [k \in Keys |-> IF k \in names THEN Missing ELSE kw[k]]

(* Faulty variant: keywords the root constructor does not know are dropped. *)
BioPaxObjectInitLenient(self, kw) ==
    IF "uid" \in Given(kw)
    THEN [ok |-> TRUE,
          self |-> [self EXCEPT !["uid"] = kw["uid"],
                                !["name"] = Arg(kw, "name"),
                                !["comment"] = Arg(kw, "comment"),
                                !["xref"] = Arg(kw, "xref")]]
    ELSE [ok |-> FALSE, self |-> self]

BioPaxObjectInit(self, kw) ==
    IF Given(kw) \subseteq BioPaxObjectParams /\ "uid" \in Given(kw)
    THEN [ok |-> TRUE,
          self |-> [self EXCEPT !["uid"] = kw["uid"],
                                !["name"] = Arg(kw, "name"),
                                !["comment"] = Arg(kw, "comment"),
                                !["xref"] = Arg(kw, "xref")]]
    ELSE [ok |-> FALSE, self |-> self]

EntityInit(self, kw) ==
    LET sup == BioPaxObjectInit(self, Without(kw, EntityParams))
    IN IF sup.ok
       THEN [ok |-> TRUE,
             self |-> [k \in Keys |->
                         IF k \in EntityParams THEN Arg(kw, k) ELSE sup.self[k]]]
       ELSE sup

GeneInit(self, kw) ==
    IF "organism" \notin Given(kw)
    THEN [ok |-> FALSE, self |-> self]
    ELSE LET sup == EntityInit(self, Without(kw, GeneParams))
         IN IF sup.ok
            THEN [ok |-> TRUE, self |-> [sup.self EXCEPT !["organism"] = kw["organism"]]]
            ELSE sup

\* the call cls(kwargs as keyword arguments)
New(c, kw) ==
    IF c = "BioPaxObject" THEN BioPaxObjectInit(NoAttrs, kw)
    ELSE IF c = "Gene" THEN GeneInit(NoAttrs, kw)
    ELSE EntityInit(NoAttrs, kw)

----------------------------------------------------------------------------
(* from_xml                                                                *)

NoResult == [kind |-> "none", obj |-> NoAttrs]

NoXml == [tag |-> NoAttr, id |-> Missing]

Init ==
    /\ cls \in Classes
    /\ element \in [id : ElementIds, children : {<<>>}]
    /\ kwargs = NoKwargs
    /\ pc = "start"
    /\ result = NoResult
    /\ xml = NoXml

(* Faulty variant: the root's list_types get an empty list as well.        *)
InitKwargsEveryList(c, uid) ==
    [k \in Keys |-> IF k = "xref" \/ InListTypes(k, c) THEN PyList(<<>>)
                    ELSE IF k = "uid" THEN uid ELSE Missing]

(* uid = get_id_or_about(element); kwargs = {'uid': uid};                  *)
(* for key in cls.list_types: kwargs[key] = []                             *)
InitKwargs(c, uid) ==
    [k \in Keys |-> IF InListTypes(k, c) THEN PyList(<<>>)
                    ELSE IF k = "uid" THEN uid ELSE Missing]

Begin ==
    /\ pc = "start"
    /\ IF HasId(element)
       THEN /\ kwargs' = InitKwargs(cls, get_id_or_about(element))
            /\ pc' = "loop"
            /\ result' = result
       ELSE /\ result' = [kind |-> "MissingIdentity", obj |-> NoAttrs]
            /\ pc' = "failed"
            /\ kwargs' = kwargs
    /\ UNCHANGED <<cls, element, xml>>

(* Faulty variant: the datatype test is inverted.                          *)
ValToAddInverted(child) ==
    IF is_datatype(child, "xsd:string")
    THEN Unresolved(get_resource(child))
    ELSE Str(child.text)

ValToAdd(child) ==
    IF is_datatype(child, "xsd:string")
    THEN Str(child.text)
    ELSE Unresolved(get_resource(child))

(* Faulty variant: the value is put in front.                              *)
AppendToFront(list, val) == PyList(<<val>> \o list.items)

AppendTo(list, val) == PyList(Append(list.items, val))

(* Faulty variant: a scalar key already present is left as it is.          *)
AddChildKeepFirst(c, kw, child) ==
    LET key == get_attr_tag(child)
        val_to_add == ValToAdd(child)
    IN IF InListTypes(key, c)
       THEN [kw EXCEPT ![key] = AppendTo(kw[key], val_to_add)]
       ELSE IF kw[key] = Missing THEN [kw EXCEPT ![key] = val_to_add] ELSE kw

AddChild(c, kw, child) ==
    LET key == get_attr_tag(child)
        val_to_add == ValToAdd(child)
    IN IF InListTypes(key, c)
       THEN [kw EXCEPT ![key] = AppendTo(kw[key], val_to_add)]
       ELSE [kw EXCEPT ![key] = val_to_add]

(* One iteration of: for child in element.getchildren()                    *)
LoopChild ==
    /\ pc = "loop"
    /\ Len(element.children) < MaxChildren
    /\ \E child \in Child :
         /\ element' = [element EXCEPT !.children = Append(@, child)]
         /\ kwargs' = AddChild(cls, kwargs, child)
    /\ UNCHANGED <<cls, pc, result, xml>>

\* the return statement, once the children are exhausted: construct cls
Construct ==
    /\ pc = "loop"
    /\ LET made == New(cls, kwargs)
       IN IF made.ok
          THEN /\ result' = [kind |-> "object", obj |-> made.self]
               /\ pc' = "returned"
          ELSE /\ result' = [kind |-> "TypeError", obj |-> NoAttrs]
               /\ pc' = "failed"
    /\ UNCHANGED <<cls, element, kwargs, xml>>

(* to_xml on the returned object                                           *)
(* Faulty variant: the tag is the root class's name.                       *)
MakeElementRootTag(name, uid) == [tag |-> "BioPaxObject", id |-> uid]

MakeElement(name, uid) == [tag |-> name, id |-> uid]

ToXml ==
    /\ pc = "returned"
    /\ xml' = MakeElement(cls, result.obj["uid"])
    /\ pc' = "serialized"
    /\ UNCHANGED <<cls, element, kwargs, result>>

Next == Begin \/ LoopChild \/ Construct \/ ToXml

Spec == Init /\ [][Next]_vars

----------------------------------------------------------------------------
(* Vocabulary of the properties, stated on the input and the outcome.      *)

Children == element.children

Returned == pc \in {"returned", "serialized"}

Finished == pc \in {"returned", "failed", "serialized"}

(* kwargs has been set up: the identity was found.                         *)
Collecting == pc # "start" /\ result.kind # "MissingIdentity"

(* Field names the constructor chain of a class accepts.                   *)
Accepts(c) ==
    IF c = "BioPaxObject" THEN {"uid", "name", "comment", "xref"}
    ELSE {"uid", "name", "comment", "xref", "standard_name", "display_name",
          "all_names", "participant_of", "availability", "data_source", "evidence"}
         \cup (IF c = "Gene" THEN {"organism"} ELSE {})

(* What one child stands for: its text, or a placeholder for its resource. *)
Expected(child) ==
    IF child.datatype = "xsd:string"
    THEN [kind |-> "str", s |-> child.text]
    ELSE [kind |-> "Unresolved", obj_id |-> child.resource]

Positions(f) == {i \in 1..Len(Children) : Children[i].tag = f}

IsLast(i) == \A j \in Positions(Children[i].tag) : j <= i

(* Position of child i among the children of its own tag.                  *)
Rank(i) == Cardinality({j \in Positions(Children[i].tag) : j <= i})

RECURSIVE ValuesOf(_, _)
ValuesOf(seq, f) ==
    IF seq = <<>> THEN <<>>
    ELSE IF Head(seq).tag = f
         THEN <<Expected(Head(seq))>> \o ValuesOf(Tail(seq), f)
         ELSE ValuesOf(Tail(seq), f)

Appears(v, obj) ==
    \E k \in Keys :
        \/ obj[k] = v
        \/ /\ obj[k].kind = "list"
           /\ \E j \in 1..Len(obj[k].items) : obj[k].items[j] = v

----------------------------------------------------------------------------
(* C1: whenever from_xml returns an object, each field that is             *)
(* collection-valued for the target class holds a list with exactly one    *)
(* entry per child of that tag, the i-th entry being the value of the i-th *)
(* such child in document order, however the other children interleave.    *)
C1_CollectionOrder ==
    Returned =>
        \A f \in Keys :
            InListTypes(f, cls) =>
                /\ result.obj[f].kind = "list"
                /\ Len(result.obj[f].items) = Cardinality(Positions(f))
                /\ result.obj[f].items = ValuesOf(Children, f)

(* Two different values of one collection field, a child of another field  *)
(* between them.                                                           *)
C1_Witness ==
    /\ Returned
    /\ Len(Children) = 3
    /\ InListTypes(Children[1].tag, cls)
    /\ Children[3].tag = Children[1].tag
    /\ Children[2].tag # Children[1].tag
    /\ Expected(Children[1]) # Expected(Children[3])
    /\ Len(result.obj[Children[1].tag].items) = 2

(* C2: the collection fields used while materializing are the class's own  *)
(* list_types or else the nearest ancestor's, never a union: only xref for *)
(* BioPaxObject, only evidence for Entity, Gene and Pathway, for which     *)
(* xref is a scalar holding the value of its last child.                   *)
C2_OverrideNotUnion ==
    Collecting =>
        LET lists == {k \in Keys : kwargs[k].kind = "list"}
        IN /\ cls = "BioPaxObject" => lists = {"xref"}
           /\ cls \in {"Entity", "Gene", "Pathway"} => lists = {"evidence"}
           /\ \A i \in 1..Len(Children) :
                (Children[i].tag \notin lists /\ IsLast(i)) =>
                    kwargs[Children[i].tag] = Expected(Children[i])
           /\ Returned => \A k \in Keys : (result.obj[k].kind = "list") = (k \in lists)

(* A Gene given two xref children keeps the second one alone.              *)
C2_Witness ==
    /\ cls = "Gene"
    /\ Returned
    /\ Cardinality(Positions("xref")) = 2
    /\ Cardinality(Positions("organism")) = 1
    /\ result.obj["xref"].kind # "list"
    /\ result.obj["evidence"] = [kind |-> "list", items |-> <<>>]

(* C3: two or more children of one field that is not collection-valued     *)
(* raise no error: with an identity, only accepted field names and Gene's  *)
(* organism supplied, an object is returned; the field holds the value of  *)
(* the last such child, and the value of an earlier child that no          *)
(* surviving child also carries appears nowhere in the object.             *)
Survives(i) == InListTypes(Children[i].tag, cls) \/ IsLast(i)

ScalarRepeated ==
    \E i \in 1..Len(Children) : ~InListTypes(Children[i].tag, cls) /\ ~IsLast(i)

C3_LastWriteWins ==
    ( /\ Finished
      /\ element.id # NoAttr
      /\ ScalarRepeated
      /\ \A i \in 1..Len(Children) : Children[i].tag \in Accepts(cls)
      /\ cls = "Gene" => Positions("organism") # {} )
    =>
    /\ Returned
    /\ \A i \in 1..Len(Children) :
         /\ (~InListTypes(Children[i].tag, cls) /\ IsLast(i)) =>
                result.obj[Children[i].tag] = Expected(Children[i])
         /\ (~Survives(i)
             /\ \A j \in 1..Len(Children) :
                    Survives(j) => Expected(Children[j]) # Expected(Children[i])) =>
                ~Appears(Expected(Children[i]), result.obj)

(* Two name children with different values; the second is kept.            *)
C3_Witness ==
    /\ Returned
    /\ Cardinality(Positions("name")) = 2
    /\ \E i, j \in Positions("name") :
         /\ i < j
         /\ Expected(Children[i]) # Expected(Children[j])
         /\ result.obj["name"] = Expected(Children[j])
         /\ ~Appears(Expected(Children[i]), result.obj)

(* C4: every child, in a scalar or in a collection field, is stored as its *)
(* text when it is marked xsd:string and otherwise as an Unresolved whose  *)
(* obj_id is its resource attribute; never the other way round.            *)
Stored(i) ==
    LET slot == kwargs[Children[i].tag]
    IN IF slot.kind = "list" THEN slot.items[Rank(i)] ELSE slot

C4_LiteralOrReference ==
    Collecting =>
        /\ \A i \in 1..Len(Children) :
             (kwargs[Children[i].tag].kind = "list" \/ IsLast(i)) =>
                /\ Children[i].datatype = "xsd:string" =>
                      /\ Stored(i).kind = "str"
                      /\ Stored(i).s = Children[i].text
                /\ Children[i].datatype # "xsd:string" =>
                      /\ Stored(i).kind = "Unresolved"
                      /\ Stored(i).obj_id = Children[i].resource
        /\ Returned =>
             \A i \in 1..Len(Children) : result.obj[Children[i].tag] = kwargs[Children[i].tag]

(* A string child and a child that has both text and a resource, one in a  *)
(* scalar and one in a collection field.                                   *)
C4_Witness ==
    /\ Returned
    /\ \E i, j \in 1..Len(Children) :
         /\ Children[i].datatype = "xsd:string"
         /\ Children[j].datatype # "xsd:string"
         /\ Children[j].text # ""
         /\ InListTypes(Children[i].tag, cls) # InListTypes(Children[j].tag, cls)
         /\ Appears([kind |-> "str", s |-> Children[i].text], result.obj)
         /\ Appears([kind |-> "Unresolved", obj_id |-> Children[j].resource], result.obj)

----------------------------------------------------------------------------
(* C5: for a valid element (it has an identity, its children are fields of *)
(* the class, none of them named like the identity parameter uid, and the  *)
(* object was built), the element to_xml makes of the materialized object  *)
(* carries the identity of the input element and the class name as tag.    *)
ValidElement ==
    /\ element.id # NoAttr
    /\ \A i \in 1..Len(Children) : Children[i].tag \in Accepts(cls) \ {"uid"}

C5_IdentityRoundTrip ==
    (pc = "serialized" /\ ValidElement) =>
        /\ xml.id = [kind |-> "str", s |-> element.id]
        /\ xml.tag = cls

(* A serialized subclass instance built from an element with children.     *)
C5_Witness ==
    /\ pc = "serialized"
    /\ ValidElement
    /\ cls = "Pathway"
    /\ Len(Children) = 2
    /\ xml = [tag |-> "Pathway", id |-> [kind |-> "str", s |-> "g1"]]

(* C6 as stated: a Gene element g1 with one organism child that is a       *)
(* reference and one xref child yields identity g1, organism the           *)
(* placeholder of that reference, and xref a one-element list holding the  *)
(* xref child's value.                                                     *)
GeneScenario ==
    /\ cls = "Gene"
    /\ Returned
    /\ element.id = "g1"
    /\ Len(Children) = 2
    /\ Cardinality(Positions("organism")) = 1
    /\ Cardinality(Positions("xref")) = 1
    /\ \A i \in Positions("organism") : Children[i].datatype # "xsd:string"

C6_XrefIsList ==
    GeneScenario =>
        /\ result.obj["uid"] = [kind |-> "str", s |-> "g1"]
        /\ \A i \in Positions("organism") :
             result.obj["organism"] = [kind |-> "Unresolved", obj_id |-> Children[i].resource]
        /\ \A i \in Positions("xref") :
             result.obj["xref"] = [kind |-> "list", items |-> <<Expected(Children[i])>>]

(* C6 amended: in that scenario identity is g1, organism is the            *)
(* placeholder of the reference, and xref is the xref child's value        *)
(* itself, not a list: xref is not collection-valued for Gene.  The        *)
(* evidence field is the empty list.                                       *)
C6_XrefIsScalar ==
    GeneScenario =>
        /\ result.obj["uid"] = [kind |-> "str", s |-> "g1"]
        /\ \A i \in Positions("organism") :
             result.obj["organism"] = [kind |-> "Unresolved", obj_id |-> Children[i].resource]
        /\ \A i \in Positions("xref") : result.obj["xref"] = Expected(Children[i])
        /\ result.obj["evidence"] = [kind |-> "list", items |-> <<>>]

(* The scenario with the organism reference first and a text xref second.  *)
C6_Witness ==
    /\ GeneScenario
    /\ Children[1].tag = "organism"
    /\ Children[1].resource = "r1"
    /\ Children[2].datatype = "xsd:string"
    /\ result.obj["xref"] = [kind |-> "str", s |-> Children[2].text]

(* C7: a Pathway element whose children are two evidence references yields *)
(* evidence as the list of the two placeholders in document order, and     *)
(* xref unset (None), xref not being a collection field of Pathway.        *)
C7_PathwayEvidence ==
    ( /\ cls = "Pathway"
      /\ Returned
      /\ Len(Children) = 2
      /\ \A i \in 1..Len(Children) :
           Children[i].tag = "evidence" /\ Children[i].datatype # "xsd:string" )
    =>
    /\ result.obj["evidence"] =
          [kind |-> "list",
           items |-> << [kind |-> "Unresolved", obj_id |-> Children[1].resource],
                        [kind |-> "Unresolved", obj_id |-> Children[2].resource] >>]
    /\ result.obj["xref"] = [kind |-> "None"]

(* Two evidence children naming different resources.                       *)
C7_Witness ==
    /\ cls = "Pathway"
    /\ Returned
    /\ Len(Children) = 2
    /\ \A i \in 1..Len(Children) :
         Children[i].tag = "evidence" /\ Children[i].datatype # "xsd:string"
    /\ Children[1].resource = "r2"
    /\ Children[2].resource = "r1"
    /\ result.obj["xref"] = [kind |-> "None"]

(* C8: for each class, once from_xml has gone through children of which at *)
(* least one has a tag the constructor chain does not accept, it ends in   *)
(* the constructor's TypeError and returns no object, wherever that child  *)
(* stands among the others.                                                *)
UnknownField == \E i \in 1..Len(Children) : Children[i].tag \notin Accepts(cls)

C8_UnknownFieldFails ==
    /\ (Finished /\ UnknownField) =>
          /\ pc = "failed"
          /\ result.kind = "TypeError"
          /\ result.obj = [k \in Keys |-> [kind |-> "missing"]]
    /\ Returned => ~UnknownField

(* A Gene whose organism is supplied fails on an unknown child that stands *)
(* between two accepted ones.                                              *)
C8_Witness ==
    /\ cls = "Gene"
    /\ pc = "failed"
    /\ result.kind = "TypeError"
    /\ Len(Children) = 3
    /\ Children[1].tag = "organism"
    /\ Children[2].tag = "left"
    /\ Children[3].tag = "name"

(* C9: whenever from_xml returns an object, its uid is the identity        *)
(* attribute of the element; no child overwrites it.                       *)
C9_IdentityKept ==
    Returned => result.obj["uid"] = [kind |-> "str", s |-> element.id]

(* C10: with an identity attribute and only children the constructor chain *)
(* accepts (possibly none), from_xml never fails.                          *)
C10_NeverFails ==
    ( /\ Finished
      /\ element.id # NoAttr
      /\ ~UnknownField )
    => (Returned /\ result.kind = "object")

====
